---- MODULE Spec2Model ----
(***************************************************************************)
(* A model of ClusterDuck.py: the operator console of a MySQL InnoDB       *)
(* cluster.  The console has one interactive (Tk) thread, a pool of four   *)
(* worker threads that run mysqlsh, a log queue drained by the interactive *)
(* thread, and deferred callbacks (after) by which workers hand results    *)
(* back to the interactive thread.                                         *)
(*                                                                         *)
(* Text is modelled as a sequence of tokens.  The characters that make up  *)
(* placeholder and JSON syntax are tokens of their own:                    *)
(*     "<"  ">"  "@"  "'"  "\\"  "{"  "}"  ";"                            *)
(* and every maximal run of other characters is one token.  Substring      *)
(* search and replacement on such sequences agree with Python's on the     *)
(* characters as long as the values substituted are themselves tokenised   *)
(* this way, which holds of every value drawn below.                       *)
(***************************************************************************)
EXTENDS Integers, Sequences, FiniteSets, TLC

(***************************************************************************)
(* Bounds of the model.                                                    *)
(***************************************************************************)
\* manual clicks on the Refresh button
MaxRefresh == 1
\* command requests: catalog buttons and the custom input bar together
MaxCommands == 1

\* log lines enqueued while the log delivery is exercised on its own
MaxLog == 4

\* timers scheduled while the LED manager is exercised on its own
MaxJobs == 5

\* ThreadPoolExecutor(max_workers=4)
MaxWorkers == 4

(***************************************************************************)
(* Python string operations on token sequences.                            *)
(***************************************************************************)
\* s[i:j] with 0-based, already clipped, Python indices
Slice(s, i, j) == SubSeq(s, i + 1, j)

\* sub in s
Contains(s, sub) ==
    \E i \in 1..(Len(s) - Len(sub) + 1) : SubSeq(s, i, i + Len(sub) - 1) = sub

\* s.find(tok): 0-based index of the first occurrence, -1 when there is none
Find(s, tok) ==
    IF \E i \in 1..Len(s) : s[i] = tok
    THEN (CHOOSE i \in 1..Len(s) : s[i] = tok /\ \A j \in 1..(i - 1) : s[j] # tok) - 1
    ELSE -1

\* s.rfind(tok): 0-based index of the last occurrence, -1 when there is none
RFind(s, tok) ==
    IF \E i \in 1..Len(s) : s[i] = tok
    THEN (CHOOSE i \in 1..Len(s) : s[i] = tok /\ \A j \in (i + 1)..Len(s) : s[j] # tok) - 1
    ELSE -1

\* Python's s[i:j] for any integers i, j: negative indices count from the end
PySlice(s, i, j) ==
    LET n  == Len(s)
        lo == IF i < 0 THEN (IF n + i < 0 THEN 0 ELSE n + i) ELSE (IF i > n THEN n ELSE i)
        hi == IF j < 0 THEN (IF n + j < 0 THEN 0 ELSE n + j) ELSE (IF j > n THEN n ELSE j)
    IN  Slice(s, lo, hi)

RECURSIVE Replace(_, _, _)
\* s.replace(old, new): every non-overlapping occurrence, scanning left to right
Replace(s, old, new) ==
    IF Len(s) < Len(old) THEN s
    ELSE IF SubSeq(s, 1, Len(old)) = old
         THEN new \o Replace(SubSeq(s, Len(old) + 1, Len(s)), old, new)
         ELSE <<Head(s)>> \o Replace(Tail(s), old, new)

RECURSIVE EscapeQuotes(_)
\* s.replace("'", "\\'")
EscapeQuotes(s) ==
    IF s = <<>> THEN <<>>
    ELSE (IF Head(s) = "'" THEN <<"\\", "'">> ELSE <<Head(s)>>) \o EscapeQuotes(Tail(s))

IsSpace(tok) == tok \in {" ", "\n"}

RECURSIVE LStrip(_)
LStrip(s) == IF s # <<>> /\ IsSpace(Head(s)) THEN LStrip(Tail(s)) ELSE s

RECURSIVE RStrip(_)
RStrip(s) ==
    IF s # <<>> /\ IsSpace(s[Len(s)]) THEN RStrip(SubSeq(s, 1, Len(s) - 1)) ELSE s

\* s.strip()
Strip(s) == RStrip(LStrip(s))

\* s.startswith(tok), s.endswith(tok)
StartsWith(s, tok) == s # <<>> /\ Head(s) = tok
EndsWith(s, tok) == s # <<>> /\ s[Len(s)] = tok

(***************************************************************************)
(* The placeholders of a command template.                                 *)
(***************************************************************************)
PH_node == <<"<", "node", ">">>
PH_user == <<"<", "user", ">">>
PH_pass == <<"<", "pass", ">">>
PH_user_at_node == <<"<", "user", ">", "@", "<", "node", ">">>

(***************************************************************************)
(* CLUSTER_COMMANDS, the catalog, entry by entry.  An entry carries the    *)
(* key "danger" only where the source gives a danger description.          *)
(***************************************************************************)
CLUSTER_COMMANDS ==
    << [title |-> "Check Cluster Status",
        template |-> <<"dba.getCluster().status(", "{", "extended:true", "}", ")">>,
        mode |-> "JS", risk |-> "safe", hint |-> "Full topology, lag, errors, etc."],
       [title |-> "List Cluster Instances",
        template |-> <<"dba.getCluster().describe()">>,
        mode |-> "JS", risk |-> "safe"],
       [title |-> "Rescan Topology",
        template |-> <<"dba.getCluster().rescan()">>,
        mode |-> "JS", risk |-> "safe"],
       [title |-> "Check Instance Health",
        template |-> <<"dba.checkInstanceConfiguration(", "'">> \o PH_user_at_node
                     \o <<"'", ")">>,
        mode |-> "JS", risk |-> "safe"],
       [title |-> "Check Global Config",
        template |-> <<"dba.checkInstanceConfiguration()">>,
        mode |-> "JS", risk |-> "safe"],
       [title |-> "Rejoin Instance",
        template |-> <<"dba.getCluster().rejoinInstance(", "'">> \o PH_node \o <<"'", ")">>,
        mode |-> "JS", risk |-> "safe"],
       [title |-> "Set Primary Instance",
        template |-> <<"dba.getCluster().setPrimaryInstance(", "'">> \o PH_node
                     \o <<"'", ")">>,
        mode |-> "JS", risk |-> "danger",
        danger |-> "Triggers failover; brief downtime for writers."],
       [title |-> "Force Rejoin (Clone)",
        template |-> <<"dba.getCluster().rejoinInstance(", "'">> \o PH_node
                     \o <<"'", ",", "{", "force:true", "}", ")">>,
        mode |-> "JS", risk |-> "danger",
        danger |-> "May discard transactions on the target."],
       [title |-> "Reboot From Complete Outage",
        template |-> <<"dba.rebootClusterFromCompleteOutage()">>,
        mode |-> "JS", risk |-> "danger",
        danger |-> "Last-resort operation when every node is offline."],
       [title |-> "Add Instance (Clone)",
        template |-> <<"dba.getCluster().addInstance(", "'">> \o PH_user_at_node
                     \o <<"'", ",", "{", "recoveryMethod:", "'", "clone", "'", "}", ")">>,
        mode |-> "JS", risk |-> "danger",
        danger |-> "Target must be empty; will wipe existing data."],
       [title |-> "Remove Instance",
        template |-> <<"dba.getCluster().removeInstance(", "'">> \o PH_user_at_node
                     \o <<"'", ")">>,
        mode |-> "JS", risk |-> "danger",
        danger |-> "Permanent; instance leaves the replication group."],
       [title |-> "Show Hostname / Port",
        template |-> <<"SELECT ", "@", "@", "hostname AS Host, ", "@", "@",
                       "port AS Port", ";">>,
        mode |-> "SQL", risk |-> "safe"],
       [title |-> "Show Cluster Members",
        template |-> <<"SELECT * FROM performance_schema.replication_group_members", ";">>,
        mode |-> "SQL", risk |-> "safe"],
       [title |-> "Show Processlist",
        template |-> <<"SHOW FULL PROCESSLIST", ";">>,
        mode |-> "SQL", risk |-> "safe",
        hint |-> "Great for spotting long-running or locked queries."],
       [title |-> "Show Engine InnoDB Status",
        template |-> <<"SHOW ENGINE INNODB STATUS", "\\", "G">>,
        mode |-> "SQL", risk |-> "safe", hint |-> "Deadlocks, semaphores, purge lag, etc."],
       [title |-> "Show Replication Applier Status",
        template |-> <<"SELECT * FROM performance_schema.replication_applier_status", ";">>,
        mode |-> "SQL", risk |-> "safe"],
       [title |-> "Show Replication Connection Status",
        template |-> <<"SELECT * FROM performance_schema.replication_connection_status",
                       ";">>,
        mode |-> "SQL", risk |-> "safe"],
       [title |-> "Check GTID Mode",
        template |-> <<"SELECT ", "@", "@", "gtid_mode", ";">>,
        mode |-> "SQL", risk |-> "safe"],
       [title |-> "Check Binlog Format",
        template |-> <<"SELECT ", "@", "@", "global.binlog_format", ";">>,
        mode |-> "SQL", risk |-> "safe"],
       [title |-> "Check SSL Settings",
        template |-> <<"SHOW VARIABLES LIKE ", "'", "%ssl_mode%", "'", ";">>,
        mode |-> "SQL", risk |-> "safe"],
       [title |-> "Server Version",
        template |-> <<"SELECT VERSION()", ";">>,
        mode |-> "SQL", risk |-> "safe"],
       [title |-> "Set Read-Only Mode",
        template |-> <<"SET GLOBAL super_read_only=ON", ";", " SET GLOBAL read_only=ON",
                       ";">>,
        mode |-> "SQL", risk |-> "danger", danger |-> "Stops all writes on this node."],
       [title |-> "Set Read-Write Mode",
        template |-> <<"SET GLOBAL super_read_only=OFF", ";", " SET GLOBAL read_only=OFF",
                       ";">>,
        mode |-> "SQL", risk |-> "danger"],
       [title |-> "START Group Replication",
        template |-> <<"START GROUP_REPLICATION", ";">>,
        mode |-> "SQL", risk |-> "danger"],
       [title |-> "STOP Group Replication",
        template |-> <<"STOP GROUP_REPLICATION", ";">>,
        mode |-> "SQL", risk |-> "danger"],
       [title |-> "RESET MASTER (purge binary logs)",
        template |-> <<"RESET MASTER", ";">>,
        mode |-> "SQL", risk |-> "danger",
        danger |-> "Deletes *all* binlogs; replicas must resync with clone or backup."] >>

\* The catalog entry with a given title (titles are unique in the catalog).
CommandTitled(t) ==
    CLUSTER_COMMANDS[CHOOSE i \in DOMAIN CLUSTER_COMMANDS : CLUSTER_COMMANDS[i].title = t]

\* The buttons the operator presses in the model: one of every kind of entry
\* (script and SQL; safe and dangerous; with and without a danger description;
\* with <node>, with <user>@<node> and without a placeholder).
Buttons ==
    { "Check Cluster Status", "Check Instance Health", "Set Primary Instance",
      "Server Version", "Set Read-Only Mode", "START Group Replication" }

(***************************************************************************)
(* JSON.  The member text of an object is one token; "{" and "}" around it *)
(* are tokens of their own.  A member token names the object it decodes to *)
(* and the layout it is written in (compact, as JSON.stringify prints it,  *)
(* or indented by two, as json.dumps(obj, indent=2) prints it).            *)
(***************************************************************************)
\* A status or role word is the sequence of its characters.
ONLINE == <<"O", "N", "L", "I", "N", "E">>
RECOVERING == <<"R", "E", "C", "O", "V", "E", "R", "I", "N", "G">>
RECOVERY == <<"R", "E", "C", "O", "V", "E", "R", "Y">>
JOINING == <<"J", "O", "I", "N", "I", "N", "G">>
PRIMARY == <<"P", "R", "I", "M", "A", "R", "Y">>
SECONDARY == <<"S", "E", "C", "O", "N", "D", "A", "R", "Y">>

ObjA ==
    [type |-> "dict", clusterName |-> "c1",
     defaultReplicaSet |->
        [topologyMode |-> "Single-Primary", statusText |-> "Cluster is ONLINE",
         topology |-> << [addr |-> "n1", node |-> [memberRole |-> PRIMARY,
                                                    status |-> ONLINE]],
                         [addr |-> "n2", node |-> [memberRole |-> SECONDARY,
                                                    status |-> ONLINE]] >>]]

\* the cluster after n1 has left it and n2 has become the primary
ObjB ==
    [type |-> "dict", clusterName |-> "c1",
     defaultReplicaSet |->
        [topologyMode |-> "Single-Primary", statusText |-> "Cluster is NOT tolerant",
         topology |-> << [addr |-> "n2", node |-> [memberRole |-> PRIMARY,
                                                    status |-> ONLINE]] >>]]

EmptyDict == [type |-> "dict"]
None == [type |-> "None"]

MemberTokens == {"A:compact", "A:indent2", "B:compact", "B:indent2"}

DecodeMembers(tok) == IF tok \in {"A:compact", "A:indent2"} THEN ObjA ELSE ObjB

IndentedMembers(obj) == IF obj = ObjA THEN "A:indent2" ELSE "B:indent2"

\* json.loads(text): ok is FALSE when it raises.  A text that is one digit
\* decodes to a number.
JsonLoads(text) ==
    IF Len(text) = 3 /\ text[1] = "{" /\ text[2] \in MemberTokens /\ text[3] = "}"
    THEN [ok |-> TRUE, val |-> DecodeMembers(text[2])]
    ELSE IF text = <<"{", "}">> THEN [ok |-> TRUE, val |-> EmptyDict]
    ELSE IF text = <<"1">> THEN [ok |-> TRUE, val |-> [type |-> "int"]]
    ELSE [ok |-> FALSE, val |-> None]

\* json.dumps(obj, indent=2) of a dict
JsonDumpsIndent2(obj) ==
    IF obj = EmptyDict THEN <<"{", "}">> ELSE <<"{", IndentedMembers(obj), "}">>

\* raw[raw.find('{') : raw.rfind('}') + 1]
JsonSpan(raw) == PySlice(raw, Find(raw, "{"), RFind(raw, "}") + 1)

\* bool(obj) of None or a decoded value
Truthy(obj) == obj.type = "dict" /\ obj # EmptyDict

\* d.get(key, default)
Get(d, key, default) == IF key \in DOMAIN d THEN d[key] ELSE default

format_cluster_status(raw) ==
    LET p == JsonLoads(JsonSpan(raw))
    IN  IF p.ok THEN JsonDumpsIndent2(p.val)
        ELSE <<"[Raw Cluster Output]", "\n">> \o Strip(raw)

\* format_cluster_status raises when handed a decoded value instead of text:
\* value.find does not exist, and neither does value.strip in the handler.
format_cluster_status_raises(value) == value.type # "str"

beautify_if_json(text) ==
    LET p == JsonLoads(JsonSpan(text))
    IN  IF p.ok THEN JsonDumpsIndent2(p.val) ELSE text

\* the try block of _load_cluster_status: the decoded object, or None
ParseStatus(raw) ==
    LET p == JsonLoads(JsonSpan(raw)) IN IF p.ok THEN p.val ELSE None

(***************************************************************************)
(* The mysqlsh process.  What it answers is the environment's choice: an   *)
(* exit status, its stdout, and its stderr as a sequence of lines.         *)
(***************************************************************************)
WARN_LINE == "WARNING: Using a password on the command line interface can be insecure."

ProcOk(out) == [returncode |-> 0, stdout |-> out, stderr |-> <<WARN_LINE>>]
ProcFail(lines) == [returncode |-> 1, stdout |-> <<>>, stderr |-> <<WARN_LINE>> \o lines]

\* answers to the status query
StatusResults ==
    { ProcOk(<<"banner", "\n", "{", "A:compact", "}", "\n">>),
      ProcOk(<<"{", "B:compact", "}">>),
      ProcOk(<<"{", "}">>),
      ProcOk(<<"ERROR: no cluster metadata">>),
      ProcFail(<<"MySQL Error 2003: Can't connect">>) }

\* answers to a script command
CommandResults ==
    { ProcOk(<<"{", "A:compact", "}">>),
      ProcOk(<<"1">>),
      ProcFail(<<"Cluster.setPrimaryInstance: instance unreachable">>) }

\* answers to an SQL command
SqlResults ==
    { ProcOk(<<"8.0.36">>),
      ProcFail(<<"ERROR: 1045: Access denied">>) }

\* the lines of stderr without the insecure-password warning
CleanStderr(lines) == SelectSeq(lines, LAMBDA ln : ln # WARN_LINE)

\* run_mysqlsh: raised with the error message, or the stripped stdout
run_mysqlsh(res) ==
    LET stderr_clean == CleanStderr(res.stderr)
    IN  IF res.returncode # 0
        THEN [raised |-> TRUE,
              err |-> IF stderr_clean # <<>> THEN stderr_clean
                      ELSE <<"mysqlsh exited with code ", "1">>,
              out |-> <<>>]
        ELSE [raised |-> FALSE, err |-> <<>>, out |-> Strip(res.stdout)]

(***************************************************************************)
(* Indicators.  An indicator shows file a; when it blinks it alternates    *)
(* between a and b.                                                        *)
(***************************************************************************)
\* LEDManager.set(widget, filename, blink)
LedSet(filename, blink) ==
    [a |-> filename, b |-> IF blink THEN "LED.png" ELSE "", blink |-> blink]

\* LEDManager.blink_between(widget, file_a, file_b)
BlinkBetween(file_a, file_b) == [a |-> file_a, b |-> file_b, blink |-> TRUE]

LowerLetters ==
    <<"a", "b", "c", "d", "e", "f", "g", "h", "i", "j", "k", "l", "m",
       "n", "o", "p", "q", "r", "s", "t", "u", "v", "w", "x", "y", "z">>
UpperLetters ==
    <<"A", "B", "C", "D", "E", "F", "G", "H", "I", "J", "K", "L", "M",
       "N", "O", "P", "Q", "R", "S", "T", "U", "V", "W", "X", "Y", "Z">>

\* lower-case letter -> its upper-case form
UpperMap ==
    [c \in {LowerLetters[i] : i \in DOMAIN LowerLetters} |->
        UpperLetters[CHOOSE i \in DOMAIN LowerLetters : LowerLetters[i] = c]]

\* the upper-case form of one character
UpperChar(c) == IF c \in DOMAIN UpperMap THEN UpperMap[c] ELSE c

\* a get_led_color that compares the status as it was written
NotUppered(w) == w

\* str.upper()
Upper(w) == [i \in DOMAIN w |-> UpperChar(w[i])]

get_led_color(status, role) ==
    LET st == Upper(status)
    IN  IF st = ONLINE THEN "green"
        ELSE IF st \in {RECOVERING, RECOVERY, JOINING} THEN "yellow"
        ELSE "red"

\* f"{color}LED.png"
LedFile(color) ==
    CASE color = "green" -> "greenLED.png"
      [] color = "yellow" -> "yellowLED.png"
      [] OTHER -> "redLED.png"

(***************************************************************************)
(* The state of one console (ClusterGUI).                                  *)
(***************************************************************************)
VARIABLES
    summary_lbl,      \* text of the summary label
    status_led,       \* the overall indicator: what LEDManager was last told to show
    node_cards,       \* children of node_frame: the node list, in order
    node_leds,        \* dict address -> indicator widget (a widget is a number)
    node_status_map,  \* _node_status_map: sequence of [addr, node], in dict order
    led_mode,         \* address -> what LEDManager was last told to show on its widget
    widget_gen,       \* number of widget generations created so far
    node_var,         \* the selected node: <<>> or <<address>>
    mode_var,         \* "JS" or "SQL"
    custom_input,     \* text of the custom input entry
    output_q,         \* the log queue: the lines not yet moved to the output box
    after_q,          \* callbacks scheduled with after(), in scheduling order
    pool,             \* the executor's tasks, queued and running, in submission order
    \* history variables, read by the properties only
    n_refresh,        \* clicks on Refresh so far
    next_run,         \* the next refresh run's number (runs are numbered as submitted)
    published,        \* [run, obj]: the refresh result applied last, and its run
    last_req,         \* the latest command request
    n_dialogs,        \* confirmation dialogs shown so far
    failed,           \* <<kind, id>> of the finished tasks a shell invocation failed in
    err_logged,       \* <<kind, id>> of the runs and requests that logged an error line
    direct_writes,    \* the presentation widgets a worker thread has written itself
    fetched,          \* <<run, k>>: the run's k-th status fetch has returned
    fill,             \* input and output of the placeholder substitution on its own
    unit              \* the state of a component exercised on its own

gui_vars ==
    << summary_lbl, status_led, node_cards, node_leds, node_status_map, led_mode,
       widget_gen, node_var, mode_var, custom_input, output_q, after_q, pool >>

hist_vars ==
    << n_refresh, next_run, published, last_req, n_dialogs, failed, err_logged,
       direct_writes, fetched >>

vars == << gui_vars, hist_vars, fill, unit >>

\* self.creds, as the login dialog returned it
creds == [user |-> <<"root">>, pass |-> <<"pa", "'", "ss">>]

(***************************************************************************)
(* Tasks, callbacks and log lines.                                         *)
(***************************************************************************)
\* executor.submit(self._load_cluster_status, silent); cause and title name the
\* request whose follow-up this run is (0 and "" for the initial and the manual
\* refresh)
LoadTask(run, silent, cause, title) ==
    [fn |-> "_load_cluster_status", pc |-> "queued", thread |-> "", run |-> run,
     req |-> 0,
     silent |-> silent, cause |-> cause, title |-> title, body |-> <<>>,
     affirmed |-> FALSE]

\* executor.submit(self._exec_command, title, js_to_run)
ExecCommandTask(req, title, js_to_run, affirmed) ==
    [fn |-> "_exec_command", pc |-> "queued", thread |-> "", run |-> 0, req |-> req,
     silent |-> FALSE, cause |-> 0, title |-> title, body |-> js_to_run,
     affirmed |-> affirmed]

\* executor.submit(self._exec_sql, sql_code)
ExecSqlTask(req, title, sql_code, affirmed) ==
    [fn |-> "_exec_sql", pc |-> "queued", thread |-> "", run |-> 0, req |-> req,
     silent |-> FALSE, cause |-> 0, title |-> title, body |-> sql_code,
     affirmed |-> affirmed]

\* self.after(delay, cb)
Callback(cb, delay, run, obj, silent, title, req) ==
    [cb |-> cb, delay |-> delay, run |-> run, obj |-> obj, silent |-> silent,
     title |-> title, req |-> req]

\* a log line carries an error tag
ErrTagged(text) == text # <<>> /\ Head(text) \in {"[ERROR] ", "[SQL ERROR] "}

\* err_logged after the run or request by has logged lines
ErrLogged(lines, by) ==
    IF \E k \in DOMAIN lines : ErrTagged(lines[k]) THEN err_logged \cup {by}
    ELSE err_logged

RemoveAt(seq, i) == SubSeq(seq, 1, i - 1) \o SubSeq(seq, i + 1, Len(seq))

\* a console that runs the task on the thread that asked for it
StartedOnCaller(t) ==
    [t EXCEPT !.pc = IF t.fn = "_load_cluster_status" THEN "fetch1" ELSE "run",
              !.thread = "interactive"]

\* a worker takes the task up: its first mysqlsh process is spawned
Started(t) ==
    [t EXCEPT !.pc = IF t.fn = "_load_cluster_status" THEN "fetch1" ELSE "run",
              !.thread = "worker"]

Running(p) == {i \in DOMAIN p : p[i].pc # "queued"}

\* executor.submit: the task starts at once when one of the workers is free,
\* and waits in submission order otherwise
Submit(p, t) ==
    Append(p, IF Cardinality(Running(p)) < MaxWorkers THEN Started(t) ELSE t)

\* a pool whose worker never comes back from a task
NeverFinished(p, i) == p

\* task i ends; its worker takes up the first waiting task, if any
Finish(p, i) ==
    LET q == RemoveAt(p, i)
        waiting == {j \in DOMAIN q : q[j].pc = "queued"}
    IN  IF waiting = {} THEN q
        ELSE LET j == CHOOSE j \in waiting : \A k \in waiting : j <= k
             IN  [q EXCEPT ![j] = Started(q[j])]

\* The Tk event loop runs due callbacks in due-time order: an after(0) callback
\* runs once every after(0) callback scheduled before it has run, and may
\* overtake a callback whose delay has not yet expired; a delayed callback runs
\* once everything scheduled before it has run.
Runnable(i) ==
    /\ i \in DOMAIN after_q
    /\ IF after_q[i].delay = 0
       THEN \A j \in 1..(i - 1) : after_q[j].delay > 0
       ELSE i = 1

\* no component is exercised on its own
UnitIdle == [kind |-> "idle"]

FillIdle == [tpl |-> <<>>, user |-> <<>>, pass |-> <<>>, node |-> <<>>,
             out |-> <<>>, filled |-> FALSE]

(***************************************************************************)
(* The state after ClusterGUI.__init__: the first refresh is submitted and *)
(* the log poll is armed.                                                  *)
(***************************************************************************)
InitGui ==
    /\ summary_lbl = <<"Refreshing...">>
    /\ status_led = LedSet("yellowLED.png", TRUE)
    /\ node_cards = <<>>
    /\ node_leds = <<>>
    /\ node_status_map = <<>>
    /\ led_mode = <<>>
    /\ widget_gen = 0
    /\ node_var = <<>>
    /\ mode_var = "JS"
    /\ custom_input = <<>>
    /\ output_q = <<>>
    /\ after_q = <<>>
    /\ pool = << Started(LoadTask(1, FALSE, 0, "")) >>
    /\ n_refresh = 0
    /\ next_run = 2
    /\ published = [run |-> 0, obj |-> None]
    /\ last_req = [id |-> 0, title |-> "", template |-> <<>>, node |-> <<>>,
                   asked |-> FALSE, answer |-> FALSE]
    /\ n_dialogs = 0
    /\ failed = {}
    /\ err_logged = {}
    /\ direct_writes = {}
    /\ fetched = {}

Init == InitGui /\ fill = FillIdle /\ unit = UnitIdle

(***************************************************************************)
(* Refresh (interactive thread).                                           *)
(***************************************************************************)
\* refresh_cluster(silent): mark the indicator in progress and submit the run
refresh_cluster(silent, cause, title) ==
    /\ status_led' = LedSet("yellowLED.png", TRUE)
    /\ summary_lbl' = <<"Refreshing...">>
    /\ pool' = Submit(pool, LoadTask(next_run, silent, cause, title))
    /\ next_run' = next_run + 1

\* the operator presses Refresh
ClickRefresh ==
    /\ n_refresh < MaxRefresh
    /\ n_refresh' = n_refresh + 1
    /\ refresh_cluster(FALSE, 0, "")
    /\ UNCHANGED << node_cards, node_leds, node_status_map, led_mode, widget_gen,
                    node_var, mode_var, custom_input, output_q, after_q,
                    published, last_req, n_dialogs, failed, err_logged, fill, unit,
                    direct_writes, fetched >>

(***************************************************************************)
(* Applying a refresh result (interactive thread).                         *)
(***************************************************************************)
\* the indicator _apply_cluster_status gives a member
MemberLed(node) ==
    IF Upper(Get(node, "memberRole", <<>>)) = PRIMARY
    THEN LedSet("blueLED.png", TRUE)
    ELSE LedSet(LedFile(get_led_color(Get(node, "status", <<>>),
                                      Get(node, "memberRole", <<>>))), FALSE)

Topology(obj) == Get(Get(obj, "defaultReplicaSet", EmptyDict), "topology", <<>>)

Addresses(topology) == {topology[i].addr : i \in DOMAIN topology}

NodeOf(topology, a) == (CHOOSE i \in DOMAIN topology : topology[i].addr = a)

\* the node data a new snapshot replaces the old with
NewNodes(obj, gen) ==
    LET topology == Topology(obj)
    IN  [cards |-> [i \in DOMAIN topology |->
                      [addr |-> topology[i].addr,
                       is_primary |-> Upper(Get(topology[i].node, "memberRole", <<>>))
                                      = PRIMARY]],
         leds  |-> [a \in Addresses(topology) |-> gen + 1],
         map   |-> topology,
         modes |-> [a \in Addresses(topology) |->
                      MemberLed(topology[NodeOf(topology, a)].node)],
         gen   |-> gen + 1]

\* an _apply_cluster_status without the early return: the node data is rebuilt
\* from whatever was decoded
NodesAlwaysRebuilt(obj, old) == NewNodes(obj, old.gen)

\* the node data after _apply_cluster_status(obj): untouched when obj is falsy
\* (the early return), replaced wholesale otherwise
NodesAfterApply(obj, old) ==
    IF ~Truthy(obj) THEN old ELSE NewNodes(obj, old.gen)

\* the summary text after _apply_cluster_status(obj)
SummaryAfterApply(obj) ==
    IF ~Truthy(obj) THEN <<"Cluster: N/A   Status: error">>
    ELSE LET rep == Get(obj, "defaultReplicaSet", EmptyDict)
         IN  << "Cluster: ", Get(obj, "clusterName", "N/A"),
                "  |  Mode: ", Get(rep, "topologyMode", "N/A"),
                "  |  Status: ", Get(rep, "statusText", "N/A") >>

CurrentNodes ==
    [cards |-> node_cards, leds |-> node_leds, map |-> node_status_map,
     modes |-> led_mode, gen |-> widget_gen]

\* after(0, self._apply_cluster_status, obj) runs
ApplyClusterStatus(i) ==
    /\ Runnable(i)
    /\ after_q[i].cb = "_apply_cluster_status"
    /\ LET obj == after_q[i].obj
           nodes == NodesAfterApply(obj, CurrentNodes)
       IN  /\ status_led' = LedSet(IF Truthy(obj) THEN "greenLED.png" ELSE "redLED.png",
                                   FALSE)
           /\ summary_lbl' = SummaryAfterApply(obj)
           /\ node_cards' = nodes.cards
           /\ node_leds' = nodes.leds
           /\ node_status_map' = nodes.map
           /\ led_mode' = nodes.modes
           /\ widget_gen' = nodes.gen
           /\ published' = [run |-> after_q[i].run, obj |-> obj]
    /\ after_q' = RemoveAt(after_q, i)
    /\ UNCHANGED << node_var, mode_var, custom_input, output_q, pool,
                    n_refresh, next_run, last_req, n_dialogs, failed, err_logged, fill, unit,
                    direct_writes, fetched >>

\* after(0, lambda: summary_lbl.configure(text="... connection error")) runs
ConnectionErrorSummary(i) ==
    /\ Runnable(i)
    /\ after_q[i].cb = "summary_connection_error"
    /\ summary_lbl' = <<"Cluster: N/A  |  Status: connection error">>
    /\ after_q' = RemoveAt(after_q, i)
    /\ UNCHANGED << status_led, node_cards, node_leds, node_status_map, led_mode,
                    widget_gen, node_var, mode_var, custom_input, output_q,
                    pool, hist_vars, fill, unit >>

\* after(0, lambda: led_mgr.set(status_led_lbl, "redLED.png", blink=False)) runs
ConnectionErrorLed(i) ==
    /\ Runnable(i)
    /\ after_q[i].cb = "led_red"
    /\ status_led' = LedSet("redLED.png", FALSE)
    /\ published' = [run |-> after_q[i].run, obj |-> None]
    /\ after_q' = RemoveAt(after_q, i)
    /\ UNCHANGED << summary_lbl, node_cards, node_leds, node_status_map, led_mode,
                    widget_gen, node_var, mode_var, custom_input, output_q,
                    pool, n_refresh, next_run, last_req, n_dialogs, failed, err_logged,
                    fill, unit,
                    direct_writes, fetched >>

(***************************************************************************)
(* Node selection (interactive thread).                                    *)
(***************************************************************************)
RECURSIVE UpdateLeds(_, _, _)
\* the loop of _update_selected_node_led over node_leds; a member without
\* "status" or "memberRole" raises KeyError, which ends the loop there
UpdateLeds(modes, items, selected) ==
    IF items = <<>> THEN modes
    ELSE LET it == Head(items)
         IN  IF ~({"status", "memberRole"} \subseteq DOMAIN it.node) THEN modes
             ELSE LET base_fn == LedFile(get_led_color(it.node.status,
                                                       it.node.memberRole))
                      m == IF <<it.addr>> = selected
                           THEN BlinkBetween(base_fn, "blueLED.png")
                           ELSE LedSet(base_fn, FALSE)
                  IN  UpdateLeds([modes EXCEPT ![it.addr] = m], Tail(items), selected)

\* the operator picks a node's radio button: node_var is written and its
\* trace runs _update_selected_node_led
SelectNode(a) ==
    /\ node_var' = <<a>>
    /\ led_mode' = UpdateLeds(led_mode, node_status_map, <<a>>)
    /\ UNCHANGED << summary_lbl, status_led, node_cards, node_leds, node_status_map,
                    widget_gen, mode_var, custom_input, output_q, after_q,
                    pool, hist_vars, fill, unit >>

(***************************************************************************)
(* The log (interactive thread).                                           *)
(***************************************************************************)
\* _poll_output: every queued line is taken off the queue, in order, and
\* inserted at the end of the output box (which nothing reads back)
PollOutput ==
    /\ output_q # <<>>
    /\ output_q' = <<>>
    /\ UNCHANGED << summary_lbl, status_led, node_cards, node_leds, node_status_map,
                    led_mode, widget_gen, node_var, mode_var, custom_input, after_q,
                    pool, hist_vars, fill, unit >>

(***************************************************************************)
(* The command dispatcher (interactive thread).                            *)
(***************************************************************************)
\* the chain of replace calls that fills a template
Fill(tpl, user, pass, node) ==
    Replace(Replace(Replace(Replace(tpl, PH_node, node),
                            PH_user, user),
                    PH_pass, EscapeQuotes(pass)),
            PH_user_at_node, user \o <<"@">> \o node)

\* a dispatcher that skips the node validation
NodeNeverMissing(cmd, node) == FALSE

\* a dispatcher that goes on whatever the operator answers
NeverDeclined(cmd, answer) == FALSE

\* needs_node and not node
NodeMissing(cmd, node) == Contains(cmd.template, PH_node) /\ node = <<>>

\* the confirmation dialog is shown for an entry with a "danger" key
DialogShown(cmd) == "danger" \in DOMAIN cmd

\* the dialog was shown and the operator answered no
Declined(cmd, answer) == DialogShown(cmd) /\ ~answer

\* a dispatcher that sends every script command as it is
NeverWrapped(filled) == filled

\* js_to_run: the filled command, wrapped unless it starts with print(
WrapJs(filled) ==
    IF ~StartsWith(Strip(filled), "print(")
    THEN <<"print(", "JSON.stringify(">> \o filled \o <<"))">>
    ELSE filled

\* the line _run_command logs for the request: the title and the filled command
RequestLine(title, filled) == <<"[", title, "]", "\n">> \o filled

\* the body _run_command hands to the shell: an SQL command as filled, a script
\* command as js_to_run
CatalogBody(cmd, filled) ==
    IF Get(cmd, "mode", "JS") = "SQL" THEN filled ELSE WrapJs(filled)

\* _run_command(cmd) with the operator's answer to the dialog, should it show
\* (one button press; answer is read only when the dialog shows)
_run_command(title, answer) ==
    LET cmd  == CommandTitled(title)
        node == node_var
        id   == last_req.id + 1
        filled == Fill(cmd.template, creds.user, creds.pass, node)
    IN
    /\ last_req.id < MaxCommands
    /\ IF NodeMissing(cmd, node)
       THEN /\ last_req' = [id |-> id, title |-> title, template |-> cmd.template,
                            node |-> node, asked |-> FALSE, answer |-> FALSE]
            /\ output_q' = Append(output_q, <<"[ERROR] ", "Select a node first!">>)
            /\ err_logged' = err_logged \cup {<<"req", id>>}
            /\ UNCHANGED << status_led, pool, after_q, n_dialogs >>
       ELSE /\ last_req' = [id |-> id, title |-> title, template |-> cmd.template,
                            node |-> node, asked |-> DialogShown(cmd),
                            answer |-> DialogShown(cmd) /\ answer]
            /\ n_dialogs' = IF DialogShown(cmd) THEN n_dialogs + 1 ELSE n_dialogs
            /\ UNCHANGED err_logged
            /\ IF Declined(cmd, answer)
               THEN UNCHANGED << status_led, pool, after_q, output_q >>
               ELSE /\ output_q' = Append(output_q, RequestLine(title, filled))
                    /\ status_led' = LedSet("yellowLED.png", TRUE)
                    /\ pool' = Submit(pool,
                          IF Get(cmd, "mode", "JS") = "SQL"
                          THEN ExecSqlTask(id, title, CatalogBody(cmd, filled),
                                           DialogShown(cmd) /\ answer)
                          ELSE ExecCommandTask(id, title, CatalogBody(cmd, filled),
                                               DialogShown(cmd) /\ answer))
                    /\ after_q' = Append(after_q,
                          Callback("_refresh_after", 0, 0, None, FALSE, title, id))
    /\ UNCHANGED << summary_lbl, node_cards, node_leds, node_status_map, led_mode,
                    widget_gen, node_var, mode_var, custom_input,
                    n_refresh, next_run, published, failed, fill, unit,
                    direct_writes, fetched >>

\* after(0, _refresh_after) runs: only the primary switch schedules a refresh
RefreshAfter(i) ==
    /\ Runnable(i)
    /\ after_q[i].cb = "_refresh_after"
    /\ after_q' =
          IF after_q[i].title = "Set Primary Instance"
          THEN Append(RemoveAt(after_q, i),
                      Callback("refresh_cluster", 1000, 0, None, TRUE,
                               after_q[i].title, after_q[i].req))
          ELSE RemoveAt(after_q, i)
    /\ UNCHANGED << summary_lbl, status_led, node_cards, node_leds, node_status_map,
                    led_mode, widget_gen, node_var, mode_var, custom_input, output_q,
                    pool, hist_vars, fill, unit >>

\* a scheduled lambda: self.refresh_cluster(silent=...) runs
ScheduledRefresh(i) ==
    /\ Runnable(i)
    /\ after_q[i].cb = "refresh_cluster"
    /\ refresh_cluster(after_q[i].silent, after_q[i].req, after_q[i].title)
    /\ after_q' = RemoveAt(after_q, i)
    /\ UNCHANGED << node_cards, node_leds, node_status_map, led_mode, widget_gen,
                    node_var, mode_var, custom_input, output_q,
                    n_refresh, published, last_req, n_dialogs, failed, err_logged, fill, unit,
                    direct_writes, fetched >>

(***************************************************************************)
(* The custom input bar (interactive thread).                              *)
(***************************************************************************)
\* what the operator types in the model (nothing, a script expression, an SQL
\* statement with and without its semicolon)
CustomCodes ==
    { <<>>,
      <<"dba.getCluster().describe()">>,
      <<"SELECT VERSION()", ";">>,
      <<"SELECT VERSION()">> }

\* code.lower().startswith("select")
LowerStartsWithSelect(code) ==
    code # <<>> /\ Head(code) \in {"SELECT VERSION()", "select version()"}

\* the body _run_custom_js hands to the shell: wrapped_code in script mode, the
\* code as typed (and stripped) in SQL mode
CustomBody(mode, code) ==
    IF mode = "JS"
    THEN (IF StartsWith(code, "print(") THEN code
          ELSE <<"print(", "JSON.stringify(">> \o code \o <<"))">>)
    ELSE code

\* _run_custom_js: the operator has typed typed into the entry and set the
\* switch to m, and presses Run (or Return in the entry)
_run_custom_js(typed, m) ==
    LET code == Strip(typed)
        mode == m
        id   == last_req.id + 1
        by   == <<"req", id>>
        reject(msg) ==
            /\ output_q' = Append(output_q, <<"[ERROR] ", msg>>)
            /\ err_logged' = err_logged \cup {by}
            /\ custom_input' = typed
            /\ UNCHANGED << status_led, pool >>
    IN
    /\ last_req.id < MaxCommands
    /\ mode_var' = m
    /\ last_req' = [id |-> id, title |-> "Custom", template |-> <<>>,
                    node |-> node_var, asked |-> FALSE, answer |-> FALSE]
    /\ IF code = <<>>
       THEN reject("No command entered.")
       ELSE IF mode = "JS" /\ LowerStartsWithSelect(code)
       THEN reject("Detected SQL syntax, but JS mode is selected. Switch to SQL mode.")
       ELSE IF mode = "SQL" /\ ~EndsWith(Strip(code), ";")
       THEN reject("SQL statements should end with a semicolon.")
       ELSE /\ output_q' = Append(output_q,
                               <<"[Custom Command - ", mode, "]", "\n">> \o code)
            /\ UNCHANGED err_logged
            /\ status_led' = LedSet("yellowLED.png", TRUE)
            /\ pool' = Submit(pool,
                  IF mode = "JS"
                  THEN ExecCommandTask(id, "Custom JS", CustomBody(mode, code), FALSE)
                  ELSE ExecSqlTask(id, "Custom SQL", CustomBody(mode, code), FALSE))
            /\ custom_input' = <<>>
    /\ UNCHANGED << summary_lbl, node_cards, node_leds, node_status_map, led_mode,
                    widget_gen, node_var, after_q,
                    n_refresh, next_run, published, n_dialogs, failed, fill, unit,
                    direct_writes, fetched >>

(***************************************************************************)
(* The worker pool.  Each step of a task is the return of the mysqlsh       *)
(* process it is waiting for, together with the code that runs up to the   *)
(* next process or to the task's end.                                     *)
(***************************************************************************)
\* _load_cluster_status, the first get_cluster_status returns
LoadFetch1(i, res) ==
    /\ i \in DOMAIN pool
    /\ pool[i].fn = "_load_cluster_status" /\ pool[i].pc = "fetch1"
    /\ fetched' = fetched \cup {<<pool[i].run, 1>>}
    /\ LET t  == pool[i]
           r  == run_mysqlsh(res)
           by == <<"run", t.run>>
       IN  IF r.raised
           THEN /\ output_q' = Append(output_q, <<"[ERROR] ">> \o r.err)
                /\ err_logged' = err_logged \cup {by}
                /\ after_q' = after_q \o
                      << Callback("summary_connection_error", 0, t.run, None, t.silent,
                                  "", 0),
                         Callback("led_red", 0, t.run, None, t.silent, "", 0) >>
                /\ pool' = Finish(pool, i)
                /\ failed' = failed \cup {<<"run", t.run>>}
           ELSE /\ output_q' = IF ~t.silent
                               THEN Append(output_q,
                                           <<"Getting cluster status using URI:">>)
                               ELSE output_q
                /\ pool' = [pool EXCEPT ![i].pc = "fetch2"]
                /\ UNCHANGED << after_q, failed, err_logged >>
    /\ UNCHANGED << summary_lbl, status_led, node_cards, node_leds, node_status_map,
                    led_mode, widget_gen, node_var, mode_var, custom_input,
                    n_refresh, next_run, published, last_req, n_dialogs, fill, unit,
                    direct_writes >>

\* the lines _load_cluster_status logs once the second fetch has returned raw
StatusLines(raw, silent) ==
    IF silent THEN <<>>
    ELSE << format_cluster_status(raw) >> \o
         (IF ParseStatus(raw) = None /\ ~JsonLoads(JsonSpan(raw)).ok
          THEN << <<"[ERROR] ", "JSON parse failed">> >>
          ELSE <<>>)

\* _load_cluster_status, the second get_cluster_status returns; when it raises,
\* nothing catches the exception and the task ends there
LoadFetch2(i, res) ==
    /\ i \in DOMAIN pool
    /\ pool[i].fn = "_load_cluster_status" /\ pool[i].pc = "fetch2"
    /\ fetched' = fetched \cup {<<pool[i].run, 2>>}
    /\ LET t  == pool[i]
           r  == run_mysqlsh(res)
           by == <<"run", t.run>>
       IN  IF r.raised
           THEN /\ failed' = failed \cup {by}
                /\ UNCHANGED << output_q, after_q, err_logged >>
           ELSE /\ output_q' = output_q \o StatusLines(r.out, t.silent)
                /\ err_logged' = ErrLogged(StatusLines(r.out, t.silent), by)
                /\ after_q' = Append(after_q,
                      Callback("_apply_cluster_status", 0, t.run, ParseStatus(r.out),
                               t.silent, "", 0))
                /\ UNCHANGED failed
    /\ pool' = Finish(pool, i)
    /\ UNCHANGED << summary_lbl, status_led, node_cards, node_leds, node_status_map,
                    led_mode, widget_gen, node_var, mode_var, custom_input,
                    n_refresh, next_run, published, last_req, n_dialogs, fill, unit,
                    direct_writes >>

\* the try block of _exec_command for "Check Cluster Status" runs through:
\* json.loads accepts out[out.find("{"):] and format_cluster_status accepts
\* what it returned
StatusBranchSucceeds(out) ==
    LET p == JsonLoads(PySlice(out, Find(out, "{"), Len(out)))
    IN  p.ok /\ ~format_cluster_status_raises(p.val)

\* _exec_command: run_mysqlsh returns; when it raises, nothing catches the
\* exception and the task ends there
ExecCommand(i, res) ==
    /\ i \in DOMAIN pool
    /\ pool[i].fn = "_exec_command" /\ pool[i].pc = "run"
    /\ LET t  == pool[i]
           r  == run_mysqlsh(res)
           by == <<"req", t.req>>
       IN  IF r.raised
           THEN /\ failed' = failed \cup {by}
                /\ UNCHANGED << output_q, after_q, err_logged >>
           ELSE /\ UNCHANGED failed
                /\ output_q' = Append(output_q, beautify_if_json(r.out))
                /\ err_logged' = ErrLogged(<< beautify_if_json(r.out) >>, by)
                /\ after_q' =
                      IF t.title = "Check Cluster Status" /\ StatusBranchSucceeds(r.out)
                      THEN Append(after_q,
                              Callback("refresh_cluster", 0, 0, None,
                                       t.title # "Set Primary Instance", t.title, t.req))
                      ELSE after_q
    /\ pool' = Finish(pool, i)
    /\ UNCHANGED << summary_lbl, status_led, node_cards, node_leds, node_status_map,
                    led_mode, widget_gen, node_var, mode_var, custom_input,
                    n_refresh, next_run, published, last_req, n_dialogs, fill, unit,
                    direct_writes, fetched >>

\* the lines _exec_sql logs: the output when there is any, then the error text
\* when stderr holds more than the password warning
SqlLines(res) ==
    (IF Strip(res.stdout) # <<>>
     THEN << beautify_if_json(Strip(res.stdout)) >> ELSE <<>>)
    \o (IF CleanStderr(res.stderr) # <<>>
        THEN << <<"[SQL ERROR] ">> \o CleanStderr(res.stderr) >> ELSE <<>>)

\* _exec_sql: the mysqlsh process returns; the exit status is not looked at,
\* and the worker clears the input entry itself
ExecSql(i, res) ==
    /\ i \in DOMAIN pool
    /\ pool[i].fn = "_exec_sql" /\ pool[i].pc = "run"
    /\ output_q' = output_q \o SqlLines(res)
    /\ err_logged' = ErrLogged(SqlLines(res), <<"req", pool[i].req>>)
    /\ custom_input' = <<>>
    /\ direct_writes' = direct_writes \cup {"custom_input"}
    /\ failed' = IF res.returncode # 0 THEN failed \cup {<<"req", pool[i].req>>}
                  ELSE failed
    /\ pool' = Finish(pool, i)
    /\ UNCHANGED << summary_lbl, status_led, node_cards, node_leds, node_status_map,
                    led_mode, widget_gen, node_var, mode_var, after_q,
                    n_refresh, next_run, published, last_req, n_dialogs, fill, unit, fetched >>

(***************************************************************************)
(* The console.                                                            *)
(***************************************************************************)
Next ==
    \/ ClickRefresh
    \/ \E a \in DOMAIN node_leds : SelectNode(a)
    \/ \E t \in Buttons, answer \in BOOLEAN : _run_command(t, answer)
    \/ \E typed \in CustomCodes, m \in {"JS", "SQL"} : _run_custom_js(typed, m)
    \/ PollOutput
    \/ \E i \in DOMAIN after_q : ApplyClusterStatus(i)
    \/ \E i \in DOMAIN after_q : ConnectionErrorSummary(i)
    \/ \E i \in DOMAIN after_q : ConnectionErrorLed(i)
    \/ \E i \in DOMAIN after_q : RefreshAfter(i)
    \/ \E i \in DOMAIN after_q : ScheduledRefresh(i)
    \/ \E i \in DOMAIN pool, res \in StatusResults : LoadFetch1(i, res)
    \/ \E i \in DOMAIN pool, res \in StatusResults : LoadFetch2(i, res)
    \/ \E i \in DOMAIN pool, res \in CommandResults : ExecCommand(i, res)
    \/ \E i \in DOMAIN pool, res \in SqlResults : ExecSql(i, res)

Spec == Init /\ [][Next]_vars

(***************************************************************************)
(* The placeholder substitution on its own: the template and the values    *)
(* are drawn from the sets below and the chain of replace calls is applied. *)
(***************************************************************************)
FillTemplates ==
    { CommandTitled("Check Instance Health").template,
      CommandTitled("Rejoin Instance").template,
      <<"add(", "'">> \o PH_user_at_node \o <<"'", ",", "{", "x:1", "}", ")">>,
      <<"grant(", "'">> \o PH_user \o <<"'", ",", "'">> \o PH_user_at_node \o <<"'", ")">>,
      <<"shell.connect(", "'">> \o PH_user \o <<":">> \o PH_pass \o <<"@">> \o PH_node
         \o <<"'", ")">> }

\* what the operator may have typed as user name and password at login
FillUsers == { <<"root">>, <<"admin">>, PH_pass }
FillPasses == { <<"s3cret">>, <<"pa", "'", "ss">>, PH_user_at_node }

\* addresses of cluster members
FillNodes == { <<"10.0.0.5">>, <<"n1:3306">> }

InitFill ==
    /\ InitGui
    /\ unit = UnitIdle
    /\ fill \in { [tpl |-> t, user |-> u, pass |-> p, node |-> n, out |-> <<>>,
                   filled |-> FALSE] :
                  t \in FillTemplates, u \in FillUsers, p \in FillPasses, n \in FillNodes }

FillApply ==
    /\ ~fill.filled
    /\ fill' = [fill EXCEPT !.out = Fill(fill.tpl, fill.user, fill.pass, fill.node),
                            !.filled = TRUE]
    /\ UNCHANGED << gui_vars, hist_vars, unit >>

NextFill == FillApply

SpecFill == InitFill /\ [][NextFill]_vars

(***************************************************************************)
(* The body handed to the shell, on its own: a catalog command with its    *)
(* placeholders filled, or accepted custom input, goes through the         *)
(* dispatcher's wrapping.                                                   *)
(***************************************************************************)
\* accepted custom input: the switch position and the text typed
WrapCustomInputs ==
    { <<"JS", <<"dba.getCluster().describe()">>>>,
      <<"JS", <<" ", "dba.getCluster().status()", "\n">>>>,
      <<"JS", <<"print(", "dba.getCluster().status()", ")">>>>,
      <<"JS", <<" ", "print(", "1", ")">>>>,
      <<"JS", <<"shell.status()">>>>,
      <<"JS", <<"print(", "JSON.stringify(", "dba.getCluster().status()", "))">>>>,
      <<"JS", <<"dba.getCluster().rescan()">>>>,
      <<"JS", <<"dba.getCluster().options()">>>>,
      <<"JS", <<"shell.options">>>>,
      <<"JS", <<"session.runSql(", "'", "select 1", "'", ")">>>>,
      <<"JS", <<"println(", "1", ")">>>>,
      <<"JS", <<"1", " ", "print(", "2", ")">>>>,
      <<"JS", <<"\n", "print(", "'", "x", "'", ")", " ">>>>,
      <<"SQL", <<"select 1", ";">>>>,
      <<"SQL", <<"SHOW MASTER STATUS", ";", "\n">>>>,
      <<"SQL", <<"SET GLOBAL super_read_only = ON", ";">>>>,
      <<"SQL", <<"SELECT VERSION()", ";">>>>,
      <<"SQL", <<" ", "SELECT VERSION()", ";", " ">>>>,
      <<"SQL", <<"SHOW PROCESSLIST", ";">>>>,
      <<"SQL", <<"print(", "1", ")", ";">>>> }

InitWrap ==
    /\ InitGui
    /\ fill = FillIdle
    /\ unit \in
         { [kind |-> "wrap", source |-> "catalog",
            mode |-> Get(CLUSTER_COMMANDS[k], "mode", "JS"),
            title |-> CLUSTER_COMMANDS[k].title,
            cmd |-> Fill(CLUSTER_COMMANDS[k].template, creds.user, creds.pass, n),
            body |-> <<>>, done |-> FALSE] :
           k \in DOMAIN CLUSTER_COMMANDS, n \in FillNodes }
         \cup
         { [kind |-> "wrap", source |-> "custom", mode |-> c[1], title |-> "Custom",
            cmd |-> Strip(c[2]), body |-> <<>>, done |-> FALSE] :
           c \in WrapCustomInputs }

\* the dispatcher computes the body of the command
WrapApply ==
    /\ unit.kind = "wrap" /\ ~unit.done
    /\ unit' = [unit EXCEPT
                  !.body = IF unit.source = "catalog"
                           THEN CatalogBody(CommandTitled(unit.title), unit.cmd)
                           ELSE CustomBody(unit.mode, unit.cmd),
                  !.done = TRUE]
    /\ UNCHANGED << gui_vars, hist_vars, fill >>

NextWrap == WrapApply

SpecWrap == InitWrap /\ [][NextWrap]_vars

(***************************************************************************)
(* The log delivery, on its own: log() is called from the interactive      *)
(* thread and from worker threads while _poll_output, started by its       *)
(* 100 ms timer, takes the queue's lines one by one into the output box.   *)
(* unit.box is the output box, unit.logged the lines in the order log()    *)
(* enqueued them, unit.pc the position of _poll_output.                    *)
(***************************************************************************)
\* the texts logged
LogTexts == { <<"[ERROR] ", "Select a node first!">>, <<"8.0.36">> }

\* an output box that shows the newest line first
InsertedAtTop(box, msg) == <<msg>> \o box

\* output_box.insert("end", msg + "\n")
Inserted(box, msg) == Append(box, msg)

InitLog ==
    /\ InitGui
    /\ fill = FillIdle
    /\ unit = [kind |-> "log", box |-> <<>>, logged |-> <<>>, pc |-> "waiting"]

\* log(text) on thread: output_q.put(text).  The interactive thread logs only
\* between two runs of _poll_output, a worker at any time.
LogPut(thread, text) ==
    /\ unit.kind = "log"
    /\ Len(unit.logged) < MaxLog
    /\ thread = "interactive" => unit.pc = "waiting"
    /\ output_q' = Append(output_q, text)
    /\ unit' = [unit EXCEPT !.logged = Append(unit.logged, text)]
    /\ UNCHANGED << summary_lbl, status_led, node_cards, node_leds, node_status_map,
                    led_mode, widget_gen, node_var, mode_var, custom_input, after_q,
                    pool, hist_vars, fill >>

\* the timer fires: _poll_output starts
PollFire ==
    /\ unit.kind = "log" /\ unit.pc = "waiting"
    /\ unit' = [unit EXCEPT !.pc = "draining"]
    /\ UNCHANGED << gui_vars, hist_vars, fill >>

\* one round of the loop: get_nowait() returns a line, which is inserted
PollGet ==
    /\ unit.kind = "log" /\ unit.pc = "draining"
    /\ output_q # <<>>
    /\ unit' = [unit EXCEPT !.box = Inserted(unit.box, Head(output_q))]
    /\ output_q' = Tail(output_q)
    /\ UNCHANGED << summary_lbl, status_led, node_cards, node_leds, node_status_map,
                    led_mode, widget_gen, node_var, mode_var, custom_input, after_q,
                    pool, hist_vars, fill >>

\* get_nowait() raises queue.Empty: the loop ends and the timer is armed again
PollEmpty ==
    /\ unit.kind = "log" /\ unit.pc = "draining"
    /\ output_q = <<>>
    /\ unit' = [unit EXCEPT !.pc = "waiting"]
    /\ UNCHANGED << gui_vars, hist_vars, fill >>

NextLog ==
    \/ \E thread \in {"interactive", "worker"}, text \in LogTexts : LogPut(thread, text)
    \/ PollFire
    \/ PollGet
    \/ PollEmpty

\* the event loop runs the timer once it is due, and a started _poll_output
\* runs to its end
SpecLog ==
    /\ InitLog
    /\ [][NextLog]_vars
    /\ WF_vars(PollFire) /\ WF_vars(PollGet) /\ WF_vars(PollEmpty)

(***************************************************************************)
(* The request line of two sessions, on its own: the same catalog command  *)
(* is requested on the same node in two sessions that were opened with the *)
(* same user name and differ in the password only.                         *)
(***************************************************************************)
InitSecret ==
    /\ InitGui
    /\ fill = FillIdle
    /\ unit \in
         { [kind |-> "secret", title |-> CLUSTER_COMMANDS[k].title, user |-> u,
            node |-> n, pass_a |-> pa, pass_b |-> pb,
            line_a |-> <<>>, line_b |-> <<>>, done |-> FALSE] :
           k \in DOMAIN CLUSTER_COMMANDS, u \in FillUsers, n \in FillNodes,
           pa \in FillPasses, pb \in FillPasses }
    /\ unit.pass_a # unit.pass_b

\* both sessions run _run_command up to the log call
SecretApply ==
    /\ unit.kind = "secret" /\ ~unit.done
    /\ LET tpl == CommandTitled(unit.title).template
       IN  unit' = [unit EXCEPT
                      !.line_a = RequestLine(unit.title,
                                    Fill(tpl, unit.user, unit.pass_a, unit.node)),
                      !.line_b = RequestLine(unit.title,
                                    Fill(tpl, unit.user, unit.pass_b, unit.node)),
                      !.done = TRUE]
    /\ UNCHANGED << gui_vars, hist_vars, fill >>

NextSecret == SecretApply

SpecSecret == InitSecret /\ [][NextSecret]_vars

(***************************************************************************)
(* LEDManager, on its own.  unit.jobs is _blink_jobs, unit.blink_state is  *)
(* _blink_state, unit.pending the timers the event loop holds (each with   *)
(* the widget and the two images of its _step closure), unit.image the     *)
(* image each widget shows, unit.exists whether the widget is still there. *)
(* All calls are made on the interactive thread, one after the other.      *)
(***************************************************************************)
\* the subjects: the overall indicator and a node's indicator
LedWidgets == {"status_led_lbl", "node_led"}

LedFiles == {"greenLED.png", "yellowLED.png"}

\* dict.pop(key, None): the dict without the key
Popped(d, key) == [k \in DOMAIN d \ {key} |-> d[k]]

\* d[key] = value
Stored(d, key, value) == [k \in DOMAIN d \cup {key} |-> IF k = key THEN value ELSE d[k]]

\* an after_cancel that leaves the timer where it is
NotCancelled(pending, job_id) == pending

\* root.after_cancel(job_id)
Cancelled(pending, job_id) == {j \in pending : j.id # job_id}

\* LEDManager.stop(widget)
LedStopped(u, w) ==
    [u EXCEPT !.pending = IF w \in DOMAIN u.jobs THEN Cancelled(u.pending, u.jobs[w])
                          ELSE u.pending,
              !.jobs = Popped(u.jobs, w),
              !.blink_state = Popped(u.blink_state, w)]

\* a _step that does not ask whether the widget is still there
LedStepUnchecked(u, w, img_a, img_b) ==
    IF w \notin DOMAIN u.blink_state THEN u
    ELSE LET st == ~u.blink_state[w]
         IN  [u EXCEPT !.blink_state = Stored(u.blink_state, w, st),
                       !.image[w] = IF st THEN img_a ELSE img_b,
                       !.pending = u.pending \cup
                                   {[id |-> u.next_id, widget |-> w,
                                     a |-> img_a, b |-> img_b]},
                       !.jobs = Stored(u.jobs, w, u.next_id),
                       !.next_id = u.next_id + 1]

\* _step of set() and of blink_between(): nothing when the widget is gone;
\* otherwise toggle, show the image and schedule the next _step
LedStep(u, w, img_a, img_b) ==
    IF ~u.exists[w] \/ w \notin DOMAIN u.blink_state THEN u
    ELSE LET st == ~u.blink_state[w]
         IN  [u EXCEPT !.blink_state = Stored(u.blink_state, w, st),
                       !.image[w] = IF st THEN img_a ELSE img_b,
                       !.pending = u.pending \cup
                                   {[id |-> u.next_id, widget |-> w,
                                     a |-> img_a, b |-> img_b]},
                       !.jobs = Stored(u.jobs, w, u.next_id),
                       !.next_id = u.next_id + 1]

\* LEDManager.set(widget, filename, blink)
LedManagerSet(u, w, filename, blink) ==
    LET v == LedStopped(u, w)
    IN  IF blink
        THEN LedStep([v EXCEPT !.blink_state = Stored(v.blink_state, w, FALSE)],
                     w, filename, "LED.png")
        ELSE [v EXCEPT !.image[w] = filename]

\* LEDManager.blink_between(widget, file_a, file_b)
LedManagerBlinkBetween(u, w, file_a, file_b) ==
    LET v == LedStopped(u, w)
    IN  LedStep([v EXCEPT !.blink_state = Stored(v.blink_state, w, FALSE)],
                w, file_a, file_b)

InitLed ==
    /\ InitGui
    /\ fill = FillIdle
    /\ unit = [kind |-> "led", jobs |-> <<>>, blink_state |-> <<>>, pending |-> {},
               image |-> [w \in LedWidgets |-> ""],
               exists |-> [w \in LedWidgets |-> TRUE], next_id |-> 1]

\* a caller on the interactive thread calls set
LedCallSet(w, filename, blink) ==
    /\ unit.kind = "led" /\ unit.exists[w]
    /\ unit.next_id <= MaxJobs
    /\ unit' = LedManagerSet(unit, w, filename, blink)
    /\ UNCHANGED << gui_vars, hist_vars, fill >>

\* _update_selected_node_led calls blink_between for the selected node
LedCallBlinkBetween(w) ==
    /\ unit.kind = "led" /\ unit.exists[w]
    /\ unit.next_id <= MaxJobs
    /\ unit' = LedManagerBlinkBetween(unit, w, "greenLED.png", "blueLED.png")
    /\ UNCHANGED << gui_vars, hist_vars, fill >>

\* a caller calls stop
LedCallStop(w) ==
    /\ unit.kind = "led" /\ unit.exists[w]
    /\ w \in DOMAIN unit.jobs
    /\ unit' = LedStopped(unit, w)
    /\ UNCHANGED << gui_vars, hist_vars, fill >>

\* a pending timer is due: the event loop takes it and runs its _step
LedTimerTick(j) ==
    /\ unit.kind = "led" /\ j \in unit.pending
    /\ unit.next_id <= MaxJobs
    /\ unit' = LedStep([unit EXCEPT !.pending = unit.pending \ {j}],
                       j.widget, j.a, j.b)
    /\ UNCHANGED << gui_vars, hist_vars, fill >>

\* _apply_cluster_status destroys the node list, and the node's indicator with it
LedWidgetDestroyed ==
    /\ unit.kind = "led" /\ unit.exists["node_led"]
    /\ unit' = [unit EXCEPT !.exists["node_led"] = FALSE]
    /\ UNCHANGED << gui_vars, hist_vars, fill >>

NextLed ==
    \/ \E w \in LedWidgets, f \in LedFiles, blink \in BOOLEAN : LedCallSet(w, f, blink)
    \/ \E w \in LedWidgets : LedCallBlinkBetween(w)
    \/ \E w \in LedWidgets : LedCallStop(w)
    \/ \E j \in unit.pending : LedTimerTick(j)
    \/ LedWidgetDestroyed

SpecLed == InitLed /\ [][NextLed]_vars

(***************************************************************************)
(* Status resolution, on its own: get_led_color is applied to a status     *)
(* word and a role word.                                                   *)
(***************************************************************************)
\* spellings of the healthy status
OnlineSpellings ==
    { ONLINE, <<"o", "n", "l", "i", "n", "e">>, <<"O", "n", "l", "i", "n", "e">>,
      <<"o", "N", "l", "I", "n", "E">> }

\* spellings of the transitioning statuses
TransitioningSpellings ==
    { RECOVERING, <<"r", "e", "c", "o", "v", "e", "r", "i", "n", "g">>,
      <<"R", "e", "c", "o", "v", "e", "r", "i", "n", "g">>,
      RECOVERY, <<"r", "e", "c", "o", "v", "e", "r", "y">>,
      JOINING, <<"j", "o", "i", "n", "i", "n", "g">>,
      <<"J", "o", "I", "n", "I", "n", "G">> }

\* other statuses: none, the other states of a member, and near misses
OtherStatuses ==
    { <<>>,
      <<"O", "F", "F", "L", "I", "N", "E">>,
      <<"o", "f", "f", "l", "i", "n", "e">>,
      <<"(", "M", "I", "S", "S", "I", "N", "G", ")">>,
      <<"U", "N", "R", "E", "A", "C", "H", "A", "B", "L", "E">>,
      <<"E", "R", "R", "O", "R">>,
      <<"O", "N", "L", "I", "N", "E", " ">>,
      <<"O", "N", "L", "I", "N">>,
      <<"R", "E", "C", "O", "V", "E", "R">>,
      <<"j", "o", "i", "n">> }

ColorRoles == { <<>>, PRIMARY, SECONDARY, <<"p", "r", "i", "m", "a", "r", "y">> }

InitColor ==
    /\ InitGui
    /\ fill = FillIdle
    /\ unit \in { [kind |-> "color", status |-> st, role |-> r, out |-> "",
                   done |-> FALSE] :
                  st \in OnlineSpellings \cup TransitioningSpellings \cup OtherStatuses,
                  r \in ColorRoles }

\* get_led_color(status, role) is called
ColorApply ==
    /\ unit.kind = "color" /\ ~unit.done
    /\ unit' = [unit EXCEPT !.out = get_led_color(unit.status, unit.role),
                            !.done = TRUE]
    /\ UNCHANGED << gui_vars, hist_vars, fill >>

NextColor == ColorApply

SpecColor == InitColor /\ [][NextColor]_vars

(***************************************************************************)
(* The pretty-printing helpers, on their own: format_cluster_status or     *)
(* _beautify_if_json is applied to a text, and again to what it returned.  *)
(***************************************************************************)
\* what mysqlsh printed: an object, compact or indented, the empty object,
\* text that is no JSON, unbalanced braces; bare or with text around it
FormatTexts ==
    { pre \o core \o post :
        pre  \in { <<>>, <<"banner", "\n">>, <<" ">> },
        core \in { <<"{", "A:compact", "}">>, <<"{", "B:indent2", "}">>, <<"{", "}">>,
                   <<"ERROR: no cluster metadata">>, <<"{", "A:compact">>,
                   <<"}", "x", "{">> },
        post \in { <<>>, <<"\n">> } }

Helpers == {"format_cluster_status", "_beautify_if_json"}

\* helper(text)
Helped(helper, text) ==
    IF helper = "format_cluster_status" THEN format_cluster_status(text)
    ELSE beautify_if_json(text)

InitFormat ==
    /\ InitGui
    /\ fill = FillIdle
    /\ unit \in { [kind |-> "format", helper |-> h, text |-> t, once |-> <<>>,
                   twice |-> <<>>, done |-> FALSE] :
                  h \in Helpers, t \in FormatTexts }

\* the helper is applied to the text and then to its own result
FormatApply ==
    /\ unit.kind = "format" /\ ~unit.done
    /\ unit' = [unit EXCEPT !.once = Helped(unit.helper, unit.text),
                            !.twice = Helped(unit.helper, Helped(unit.helper, unit.text)),
                            !.done = TRUE]
    /\ UNCHANGED << gui_vars, hist_vars, fill >>

NextFormat == FormatApply

SpecFormat == InitFormat /\ [][NextFormat]_vars

(***************************************************************************)
(* Properties of the console.                                              *)
(***************************************************************************)
\* C1: once a refresh result has been applied, the result of a refresh that
\* was submitted earlier never replaces it: the run whose outcome is on
\* display (summary, node list, overall indicator) never goes back to an
\* older run.
OlderRefreshNeverOverwrites == [][published'.run >= published.run]_vars

\* the catalog entry a task was submitted for is dangerous
DangerousTask(t) ==
    /\ t.fn \in {"_exec_command", "_exec_sql"}
    /\ \E k \in DOMAIN CLUSTER_COMMANDS :
          CLUSTER_COMMANDS[k].title = t.title /\ CLUSTER_COMMANDS[k].risk = "danger"

\* C2: every shell invocation submitted for a catalog command whose risk is
\* "danger" was affirmed by the operator in the confirmation dialog.
DangerousIsAffirmed ==
    \A i \in DOMAIN pool : DangerousTask(pool[i]) => pool[i].affirmed

\* the step is a request the operator declined in the confirmation dialog
DeclineStep ==
    /\ last_req'.id = last_req.id + 1
    /\ last_req'.asked
    /\ ~last_req'.answer

\* C3: declining the confirmation changes nothing: no task is submitted, no
\* log line is enqueued, no callback (follow-up refresh) is scheduled, and the
\* snapshot and the overall indicator stay as they are.
DeclineChangesNothing ==
    [][DeclineStep => /\ UNCHANGED gui_vars
                      /\ UNCHANGED << next_run, published, failed, err_logged >>]_vars

\* a confirmation was declined
DeclineHappened == last_req.id > 0 /\ last_req.asked /\ ~last_req.answer

\* the step is a request for a <node> command with no node selected
NodeMissingStep ==
    /\ last_req'.id = last_req.id + 1
    /\ Contains(last_req'.template, PH_node)
    /\ last_req'.node = <<>>

\* C4: a catalog command whose template holds <node>, requested with no node
\* selected, stops at validation: no task is submitted, no dialog is shown, no
\* callback is scheduled, and the snapshot and the overall indicator stay as
\* they are.
NodeValidationStops ==
    [][NodeMissingStep =>
          /\ ~last_req'.asked
          /\ UNCHANGED << pool, n_dialogs, after_q, next_run >>
          /\ UNCHANGED << summary_lbl, status_led, node_cards, node_leds,
                          node_status_map, led_mode, widget_gen, published >>]_vars

\* the dangerous <node> command was requested with no node selected and went
\* no further: no dialog, no task
NodeValidationHappened ==
    /\ last_req.id > 0
    /\ last_req.title = "Set Primary Instance"
    /\ Contains(last_req.template, PH_node)
    /\ last_req.node = <<>>
    /\ n_dialogs = 0
    /\ \A i \in DOMAIN pool : pool[i].fn = "_load_cluster_status"

\* C5: every refresh run that ended on a failed shell invocation has enqueued
\* a log line tagged ERROR.
FailedRefreshLogsError ==
    \A f \in failed : f[1] = "run" => f \in err_logged

\* the step puts a failed refresh's outcome on display
FailedRefreshApplied ==
    /\ published' # published
    /\ ~Truthy(published'.obj)

\* C6: a failed refresh leaves the member data as the last successful refresh
\* published it.  The node list, node_leds and the per-node status map change
\* only in a step that applies a non-empty decoded object; the step that puts a
\* failed refresh on display changes the overall indicator to static red and
\* nothing of the member data.
FailedRefreshKeepsMembers ==
    [][ /\ (node_cards' # node_cards \/ node_leds' # node_leds
            \/ node_status_map' # node_status_map)
           => (published' # published /\ Truthy(published'.obj))
        /\ FailedRefreshApplied
           => /\ UNCHANGED << node_cards, node_leds, node_status_map, led_mode,
                              widget_gen >>
              /\ status_led' = LedSet("redLED.png", FALSE)
              /\ summary_lbl' \in { <<"Cluster: N/A   Status: error">>,
                                    summary_lbl } ]_vars

\* a failed refresh is on display over the members of an earlier good one
FailedOverGoodMembers ==
    /\ published.run > 0
    /\ ~Truthy(published.obj)
    /\ node_cards # <<>>
    /\ node_status_map # <<>>
    /\ status_led = LedSet("redLED.png", FALSE)

\* C7: every dispatched command whose shell invocation failed has enqueued a
\* log line carrying an error tag.
FailedCommandLogsError ==
    \A f \in failed : f[1] = "req" => f \in err_logged

\* C8: the follow-up refresh of "Set Primary Instance" is non-silent and the
\* follow-up refresh of any other command is silent, as scheduled and as
\* submitted.
FollowUpSilence ==
    /\ \A i \in DOMAIN after_q :
          after_q[i].cb = "refresh_cluster"
             => (after_q[i].silent <=> after_q[i].title # "Set Primary Instance")
    /\ \A i \in DOMAIN pool :
          (pool[i].fn = "_load_cluster_status" /\ pool[i].cause > 0)
             => (pool[i].silent <=> pool[i].title # "Set Primary Instance")

\* C9: the status fetch of a follow-up refresh never runs while the shell
\* invocation of the command it follows is still unfinished.
FollowUpAfterCompletion ==
    \A i, j \in DOMAIN pool :
       (pool[i].fn = "_load_cluster_status" /\ pool[i].cause > 0
        /\ pool[i].pc # "queued")
          => pool[j].req # pool[i].cause

(***************************************************************************)
(* Properties of the placeholder substitution.                             *)
(***************************************************************************)
\* the token sequence s begins with the token sequence p
StartsWithSeq(s, p) == Len(s) >= Len(p) /\ SubSeq(s, 1, Len(p)) = p

RECURSIVE Simultaneous(_, _, _, _)
\* the template with every placeholder occurrence replaced in one pass, left to
\* right, from the original values: nothing substituted is scanned again
Simultaneous(tpl, user, pass, node) ==
    IF tpl = <<>> THEN <<>>
    ELSE IF StartsWithSeq(tpl, PH_user_at_node)
    THEN user \o <<"@">> \o node
         \o Simultaneous(SubSeq(tpl, Len(PH_user_at_node) + 1, Len(tpl)),
                         user, pass, node)
    ELSE IF StartsWithSeq(tpl, PH_node)
    THEN node \o Simultaneous(SubSeq(tpl, Len(PH_node) + 1, Len(tpl)),
                              user, pass, node)
    ELSE IF StartsWithSeq(tpl, PH_user)
    THEN user \o Simultaneous(SubSeq(tpl, Len(PH_user) + 1, Len(tpl)),
                              user, pass, node)
    ELSE IF StartsWithSeq(tpl, PH_pass)
    THEN EscapeQuotes(pass)
         \o Simultaneous(SubSeq(tpl, Len(PH_pass) + 1, Len(tpl)), user, pass, node)
    ELSE <<Head(tpl)>> \o Simultaneous(Tail(tpl), user, pass, node)

\* C10: the filled command is the template with every placeholder occurrence
\* replaced simultaneously from the original values.
FillIsSimultaneous ==
    fill.filled => fill.out = Simultaneous(fill.tpl, fill.user, fill.pass, fill.node)

(***************************************************************************)
(* Properties of the body handed to the shell.                             *)
(***************************************************************************)
\* the text opens with a print call
BeginsWithPrint(text) == text # <<>> /\ Head(text) = "print("

\* C11: every script-mode body handed to the shell begins with a print call:
\* it is the command itself when that starts with print( and the command
\* wrapped as print(JSON.stringify(...)) otherwise; an SQL-mode body is the
\* command unmodified.
ScriptBodyPrints ==
    (unit.kind = "wrap" /\ unit.done) =>
        IF unit.mode = "JS"
        THEN /\ BeginsWithPrint(unit.body)
             /\ unit.body = IF BeginsWithPrint(unit.cmd) THEN unit.cmd
                            ELSE <<"print(", "JSON.stringify(">> \o unit.cmd \o <<"))">>
        ELSE unit.body = unit.cmd

\* a catalog script command without a print call has been wrapped
CatalogCommandWrapped ==
    /\ unit.kind = "wrap" /\ unit.done
    /\ unit.source = "catalog" /\ unit.mode = "JS"
    /\ ~BeginsWithPrint(unit.cmd)
    /\ unit.body = <<"print(", "JSON.stringify(">> \o unit.cmd \o <<"))">>

(***************************************************************************)
(* Properties of the log delivery.                                         *)
(***************************************************************************)
\* C12: the output box holds the log lines in exactly the order log()
\* enqueued them, each once: at every moment the box followed by the queue is
\* the sequence of lines logged so far; and every enqueued line is eventually
\* in the box.
LogDeliveredInOrder ==
    /\ [](unit.kind = "log" => unit.box \o output_q = unit.logged)
    /\ \A k \in 1..MaxLog :
          (Len(unit.logged) >= k) ~> (Len(unit.box) >= k /\ unit.box[k] = unit.logged[k])

\* lines were enqueued while _poll_output was taking lines: different lines are
\* in the box already and another waits in the queue
DrainInterleavedWithLog ==
    /\ unit.kind = "log" /\ unit.pc = "draining"
    /\ Len(unit.box) >= 2 /\ unit.box[1] # unit.box[2]
    /\ output_q # <<>>

(***************************************************************************)
(* Properties of the request line.                                         *)
(***************************************************************************)
\* C13: the secret never appears in a log line: the line logged for a request
\* is the same in two sessions that differ only in the secret.
LogIndependentOfSecret ==
    (unit.kind = "secret" /\ unit.done) => unit.line_a = unit.line_b

(***************************************************************************)
(* Properties of the console: threads.                                     *)
(***************************************************************************)
\* C14: no worker thread writes a presentation widget (summary, overall
\* indicator, node list, input field) itself.
WorkersWriteNothing == direct_writes = {}

\* a mysqlsh process of some task returns in the step
ShellReturns == fetched' # fetched \/ Len(pool') < Len(pool)

\* C15: every shell invocation of a refresh or of a dispatched command runs on
\* a worker thread: a task waiting on mysqlsh was taken up by a worker, and the
\* step in which a mysqlsh process returns is not a step of a handler of the
\* interactive thread.
ShellOnWorkersOnly ==
    /\ [](\A i \in DOMAIN pool :
             pool[i].pc # "queued" => pool[i].thread = "worker")
    /\ [][ShellReturns => UNCHANGED << last_req, n_refresh, n_dialogs, next_run,
                                       node_var, mode_var, published >>]_vars

\* a refresh and a dispatched command are both waiting on mysqlsh
RefreshAndCommandInShell ==
    /\ \E i \in DOMAIN pool : pool[i].fn = "_load_cluster_status" /\ pool[i].pc = "fetch2"
    /\ \E i \in DOMAIN pool : pool[i].req > 0 /\ pool[i].pc = "run"

(***************************************************************************)
(* Properties of the console: recovery and the status fetch.               *)
(***************************************************************************)
\* the task a failure was recorded for
TaskOf(f, t) == IF f[1] = "run" THEN t.run = f[2] ELSE t.req = f[2]

\* the step puts valid status on display
ValidStatusApplied ==
    /\ published' # published
    /\ Truthy(published'.obj)

\* C19: no earlier failure blocks the console.  A failed task has left the
\* pool and a task waits only while every worker is busy; a manual refresh is accepted
\* in every state (up to the number of clicks explored); and whatever failed
\* before, applying valid status publishes the snapshot and sets the overall
\* indicator to static green.
UsableAfterFailure ==
    /\ [](\A f \in failed : \A i \in DOMAIN pool : ~TaskOf(f, pool[i]))
    /\ [](\A i \in DOMAIN pool :
             pool[i].pc = "queued" => Cardinality(Running(pool)) = MaxWorkers)
    /\ [](n_refresh < MaxRefresh => ENABLED ClickRefresh)
    /\ [][ValidStatusApplied =>
             /\ status_led' = LedSet("greenLED.png", FALSE)
             /\ summary_lbl' = SummaryAfterApply(published'.obj)
             /\ node_status_map' = Topology(published'.obj)
             /\ DOMAIN node_leds' = Addresses(Topology(published'.obj))]_vars

\* the first refresh and a command have failed, and the manual refresh has
\* published valid status and set the indicator to green
RecoveredAfterFailures ==
    /\ <<"run", 1>> \in failed
    /\ <<"req", 1>> \in failed
    /\ n_refresh = 1
    /\ published.run = 2
    /\ Truthy(published.obj)
    /\ status_led = LedSet("greenLED.png", FALSE)
    /\ node_cards # <<>>

\* C20: every refresh run performs exactly one status fetch: no run's second
\* fetch ever returns.
OneFetchPerRun == \A f \in fetched : f[2] = 1

(***************************************************************************)
(* Properties of LEDManager.                                               *)
(***************************************************************************)
\* the timers pending for a subject
PendingFor(w) == {j \in unit.pending : j.widget = w}

\* C16: every LED subject has at most one pending blink timer in every
\* reachable state, and the timer pending for a subject that is still there is
\* the one _blink_jobs names.
OneTimerPerSubject ==
    unit.kind = "led" =>
        \A w \in LedWidgets :
           /\ Cardinality(PendingFor(w)) <= 1
           /\ \A j \in PendingFor(w) :
                 unit.exists[w] => (w \in DOMAIN unit.jobs /\ unit.jobs[w] = j.id)

\* an animation was replaced by another: the overall indicator blinks between
\* two images on a timer that is not the first one scheduled for it
AnimationReplaced ==
    /\ unit.kind = "led"
    /\ \E j \in PendingFor("status_led_lbl") : j.b = "blueLED.png" /\ j.id >= 3
    /\ PendingFor("node_led") # {}

(***************************************************************************)
(* Properties of the status resolution.                                    *)
(***************************************************************************)
\* C17: ONLINE in any letter case resolves to green; RECOVERING, RECOVERY and
\* JOINING in any letter case resolve to yellow; every other string, the empty
\* one included, resolves to red; whatever the role.
StatusResolution ==
    (unit.kind = "color" /\ unit.done) =>
        unit.out = IF unit.status \in OnlineSpellings THEN "green"
                   ELSE IF unit.status \in TransitioningSpellings THEN "yellow"
                   ELSE "red"

\* a mixed-case spelling of a transitioning status was resolved for a primary
MixedCaseResolved ==
    /\ unit.kind = "color" /\ unit.done
    /\ unit.status = <<"J", "o", "I", "n", "I", "n", "G">>
    /\ unit.role = PRIMARY
    /\ unit.out = "yellow"

(***************************************************************************)
(* Properties of the pretty-printing helpers.                              *)
(***************************************************************************)
\* the text holds a JSON object the helpers decode
Decodable(text) == JsonLoads(JsonSpan(text)).ok

\* C18: each pretty-printing helper is idempotent on a text that holds a
\* decodable JSON object, and returns a text that holds none as it is.
FormatIdempotentOrIdentity ==
    (unit.kind = "format" /\ unit.done) =>
        IF Decodable(unit.text) THEN unit.twice = unit.once
        ELSE unit.once = unit.text


(***************************************************************************)
(* Properties of the refresh log.                                          *)
(***************************************************************************)
\* C21: what a status fetch of a refresh run enqueues when it returns.  A
\* failed fetch enqueues an ERROR-tagged line, silent or not.  A silent run
\* enqueues nothing on a successful fetch.  A non-silent run whose fetch
\* succeeds ends by enqueuing the pretty-printed status first, and an
\* ERROR-tagged line as well exactly when the output did not parse.
FetchLogging ==
    [][\A i \in DOMAIN pool, k \in {1, 2} :
          (pool[i].fn = "_load_cluster_status"
           /\ <<pool[i].run, k>> \in fetched' \ fetched)
          => LET t == pool[i]
                 new == SubSeq(output_q', Len(output_q) + 1, Len(output_q'))
                 ended == \A j \in DOMAIN pool' : pool'[j].run # t.run
                 obj == after_q'[Len(after_q')].obj
             IN  IF <<"run", t.run>> \in failed'
                 THEN \E j \in DOMAIN new : ErrTagged(new[j])
                 ELSE IF t.silent THEN new = <<>>
                 ELSE ended =>
                        /\ new # <<>>
                        /\ new[1] = (IF obj # None THEN JsonDumpsIndent2(obj)
                                     ELSE new[1])
                        /\ Head(new[1]) \in {"{", "[Raw Cluster Output]"}
                        /\ (obj = None <=> \E j \in DOMAIN new : ErrTagged(new[j]))
      ]_vars

(***************************************************************************)
(* Members with incomplete telemetry: a snapshot whose members may lack    *)
(* "status" or "memberRole" is applied, and the operator selects nodes.    *)
(***************************************************************************)
\* what the shell may report of one member; "mode" is always there
MemberShapes ==
    { [mode |-> "R/W", status |-> ONLINE, memberRole |-> PRIMARY],
      [mode |-> "R/O", status |-> ONLINE, memberRole |-> SECONDARY],
      [mode |-> "R/O", status |-> RECOVERING],
      [mode |-> "R/O", memberRole |-> SECONDARY],
      [mode |-> "R/W", memberRole |-> PRIMARY],
      [mode |-> "n/a"] }

\* the topologies of one and of two members
MemberTopologies ==
    { << [addr |-> "n1", node |-> n] >> : n \in MemberShapes }
    \cup { << [addr |-> "n1", node |-> n], [addr |-> "n2", node |-> m] >> :
              n \in MemberShapes, m \in MemberShapes }

\* the decoded status object with this topology
StatusWith(topology) ==
    [type |-> "dict", clusterName |-> "c1",
     defaultReplicaSet |-> [topologyMode |-> "Single-Primary",
                            statusText |-> "OK", topology |-> topology]]

\* _update_selected_node_led raises KeyError: some member of the status map
\* has no "status" or no "memberRole"
SelectRaises(items) ==
    \E k \in DOMAIN items : ~({"status", "memberRole"} \subseteq DOMAIN items[k].node)

InitMember ==
    /\ InitGui
    /\ fill = FillIdle
    /\ unit = [kind |-> "member", map |-> <<>>, modes |-> <<>>, selected |-> <<>>,
               raised |-> FALSE]

\* what _apply_cluster_status(obj) makes of a console's member data c
ConsoleApplied(c, topology) ==
    LET nodes == NodesAfterApply(StatusWith(topology),
                                 [cards |-> <<>>, leds |-> <<>>, map |-> c.map,
                                  modes |-> c.modes, gen |-> 0])
    IN  [c EXCEPT !.map = nodes.map, !.modes = nodes.modes]

\* what node_var.set(a) and its trace _update_selected_node_led make of it
ConsoleSelected(c, a) ==
    [c EXCEPT !.selected = <<a>>, !.modes = UpdateLeds(c.modes, c.map, <<a>>)]

\* _apply_cluster_status(obj) on the interactive thread
MemberApply(topology) ==
    /\ unit.kind = "member"
    /\ unit' = [ConsoleApplied(unit, topology) EXCEPT !.raised = FALSE]
    /\ UNCHANGED << gui_vars, hist_vars, fill >>

\* the operator picks the radio button of member a: node_var is written and
\* its trace runs _update_selected_node_led
MemberSelect(a) ==
    /\ unit.kind = "member"
    /\ a \in DOMAIN unit.modes
    /\ unit' = [ConsoleSelected(unit, a) EXCEPT !.raised = SelectRaises(unit.map)]
    /\ UNCHANGED << gui_vars, hist_vars, fill >>

NextMember ==
    \/ \E topology \in MemberTopologies : MemberApply(topology)
    \/ \E a \in {"n1", "n2"} : MemberSelect(a)

SpecMember == InitMember /\ [][NextMember]_vars

\* C22: a member without "status" or "memberRole" never causes an error, when
\* a snapshot is applied and when a node is selected afterwards, and a member
\* that is not the primary and reports no status shows the red indicator.
MissingFieldsNeverRaise ==
    unit.kind = "member" =>
       /\ ~unit.raised
       /\ \A k \in DOMAIN unit.map :
             LET node == unit.map[k].node
             IN  ("status" \notin DOMAIN node
                  /\ Upper(Get(node, "memberRole", <<>>)) # PRIMARY)
                 => unit.modes[unit.map[k].addr].a = "redLED.png"

(***************************************************************************)
(* Properties of LEDManager and destroyed subjects.                        *)
(***************************************************************************)
\* C23: once a subject is destroyed no tick updates it or raises an error.
\* The image of a destroyed subject never changes and no timer is added for
\* it: the tick that finds it gone takes its own timer away and schedules no
\* other, so nothing is pending for the subject from then on.  The lookup of
\* the blink state in _step cannot fail: every pending timer's subject has one.
DestroyedSubjectIsLeftAlone ==
    /\ [](unit.kind = "led" =>
             \A j \in unit.pending : j.widget \in DOMAIN unit.blink_state)
    /\ [][\A w \in LedWidgets :
            (unit.kind = "led" /\ ~unit.exists[w])
            => /\ unit'.image[w] = unit.image[w]
               /\ {j \in unit'.pending : j.widget = w} \subseteq PendingFor(w)
               /\ (\E j \in PendingFor(w) : j \notin unit'.pending)
                     => {j \in unit'.pending : j.widget = w} = {}]_vars

\* the node's indicator was destroyed while it was blinking between two
\* images, and the tick that followed has run: its timer is gone, the handle
\* LEDManager still names is no longer pending
TickAfterDestruction ==
    /\ unit.kind = "led"
    /\ ~unit.exists["node_led"]
    /\ "node_led" \in DOMAIN unit.jobs
    /\ PendingFor("node_led") = {}
    /\ unit.image["node_led"] \in {"greenLED.png", "blueLED.png"}
    /\ PendingFor("status_led_lbl") # {}

\* C27: LEDManager keeps no blink state and no timer handle for a destroyed
\* indicator: the keys of _blink_jobs and of _blink_state are live subjects.
LedKeysAreLive ==
    unit.kind = "led" =>
       \A w \in DOMAIN unit.jobs \cup DOMAIN unit.blink_state : unit.exists[w]

(***************************************************************************)
(* Properties of the overall indicator.                                    *)
(***************************************************************************)
\* C24: the overall indicator is never left blinking in-progress while the
\* console is idle.  When a command has been requested, no task is queued or
\* running, no callback is scheduled and no refresh run has died on a failed
\* fetch, the indicator does not show the in-progress blink.
IdleIsNotInProgress ==
    (/\ last_req.id > 0
     /\ pool = <<>>
     /\ after_q = <<>>
     /\ \A f \in failed : f[1] # "run")
    => status_led # LedSet("yellowLED.png", TRUE)

(***************************************************************************)
(* Properties of the command target.                                       *)
(***************************************************************************)
\* C25: whenever a command whose template holds <node> is submitted to the
\* pool, the node substituted into it is a member of the snapshot published
\* last (the members on display).
TargetIsCurrentMember ==
    [][(/\ last_req'.id = last_req.id + 1
        /\ Contains(last_req'.template, PH_node)
        /\ Len(pool') > Len(pool))
       => \E k \in DOMAIN node_status_map :
             last_req'.node = <<node_status_map[k].addr>>]_vars

(***************************************************************************)
(* Two consoles side by side: each is sent snapshots and node selections,  *)
(* in whatever order.                                                      *)
(***************************************************************************)
OrderTopologies ==
    { Topology(ObjA), Topology(ObjB),
      << [addr |-> "n1", node |-> [memberRole |-> PRIMARY, status |-> ONLINE]],
         [addr |-> "n2", node |-> [memberRole |-> SECONDARY,
                                   status |-> RECOVERING]] >> }

Sides == {"left", "right"}

InitOrder ==
    /\ InitGui
    /\ fill = FillIdle
    /\ unit = [kind |-> "order",
               left |-> [map |-> <<>>, modes |-> <<>>, selected |-> <<>>],
               right |-> [map |-> <<>>, modes |-> <<>>, selected |-> <<>>]]

\* a refresh result is applied on one console
OrderApply(side, topology) ==
    /\ unit.kind = "order"
    /\ unit' = [unit EXCEPT ![side] = ConsoleApplied(unit[side], topology)]
    /\ UNCHANGED << gui_vars, hist_vars, fill >>

\* the operator of one console picks a node's radio button
OrderSelect(side, a) ==
    /\ unit.kind = "order"
    /\ a \in DOMAIN unit[side].modes
    /\ unit' = [unit EXCEPT ![side] = ConsoleSelected(unit[side], a)]
    /\ UNCHANGED << gui_vars, hist_vars, fill >>

NextOrder ==
    \/ \E side \in Sides, topology \in OrderTopologies : OrderApply(side, topology)
    \/ \E side \in Sides, a \in {"n1", "n2"} : OrderSelect(side, a)

SpecOrder == InitOrder /\ [][NextOrder]_vars

\* C26: the indicator of every node is determined by the snapshot published
\* last and the current selection: two consoles that hold the same snapshot
\* and the same selection show the same indicators, whatever the order of
\* the refreshes and selections that brought them there.
IndicatorsDependOnSnapshotAndSelection ==
    unit.kind = "order" =>
       ((unit.left.map = unit.right.map /\ unit.left.selected = unit.right.selected)
        => unit.left.modes = unit.right.modes)

====
